---- MODULE Spec2Model ----
(***************************************************************************)
(* India Map Visualizer: the Streamlit script app.py (one script run per   *)
(* user interaction) and the offline rebuild script build_geojsons.py.     *)
(*                                                                         *)
(* Strings are sequences of one-character strings, so that str.strip and   *)
(* the regular expressions of tidy_name are computed, not assumed.         *)
(* A GeoDataFrame is [cols |-> set of column names, rows |-> sequence of   *)
(* rows], a row being a function from the column names to values.          *)
(***************************************************************************)
EXTENDS Integers, Sequences, FiniteSets, TLC

(***************************************************************************)
(* Bounds of the model.                                                    *)
(***************************************************************************)
MaxLen == 5
MaxClicks == 2
MaxRows == 3
ReadCap == 2

(***************************************************************************)
(* Characters and strings.                                                 *)
(***************************************************************************)
Whitespace == {" ", "\t"}
Lower == {"a", "n", "d"}
Upper == {"A"}

\* A value that is not a str (a missing name read as float NaN).
NaN == <<"NaN">>

RECURSIVE lstrip(_)
lstrip(s) ==
    IF s /= <<>> /\ Head(s) \in Whitespace THEN lstrip(Tail(s)) ELSE s

RECURSIVE rstrip(_)
rstrip(s) ==
    IF s /= <<>> /\ s[Len(s)] \in Whitespace
    THEN rstrip(SubSeq(s, 1, Len(s) - 1))
    ELSE s

\* str.strip()
strip(s) == rstrip(lstrip(s))

\* pandas Series.str.strip() on one value: a missing value stays missing.
str_strip(v) == IF v = NaN THEN NaN ELSE strip(v)

(***************************************************************************)
(* scripts/build_geojsons.py: tidy_name.                                   *)
(***************************************************************************)
\* value.replace("_", " ").replace("-", " ")
ReplaceSeparators(s) ==
    [i \in 1..Len(s) |-> IF s[i] \in {"_", "-"} THEN " " ELSE s[i]]

\* re.sub(r"(?<=[a-z])and(?=[A-Z])", " and ", s), scanning from position i
RECURSIVE SubAndFrom(_, _)
SubAndFrom(s, i) ==
    IF i > Len(s) THEN <<>>
    ELSE IF /\ i > 1
            /\ i + 3 <= Len(s)
            /\ s[i - 1] \in Lower
            /\ SubSeq(s, i, i + 2) = <<"a", "n", "d">>
            /\ s[i + 3] \in Upper
         THEN <<" ", "a", "n", "d", " ">> \o SubAndFrom(s, i + 3)
         ELSE <<s[i]>> \o SubAndFrom(s, i + 1)

SubAnd(s) == SubAndFrom(s, 1)

\* re.sub(r"(?<!\s)(?=[A-Z])", " ", s): a space before every capital that
\* no whitespace precedes (the start of the string included)
RECURSIVE SpaceBeforeCapitalsFrom(_, _)
SpaceBeforeCapitalsFrom(s, i) ==
    IF i > Len(s) THEN <<>>
    ELSE (IF s[i] \in Upper /\ (i = 1 \/ s[i - 1] \notin Whitespace)
          THEN <<" ", s[i]>>
          ELSE <<s[i]>>) \o SpaceBeforeCapitalsFrom(s, i + 1)

SpaceBeforeCapitals(s) == SpaceBeforeCapitalsFrom(s, 1)

\* re.sub(r"\s+", " ", s)
RECURSIVE CollapseWhitespaceFrom(_, _)
CollapseWhitespaceFrom(s, i) ==
    IF i > Len(s) THEN <<>>
    ELSE IF s[i] \in Whitespace
         THEN (IF i > 1 /\ s[i - 1] \in Whitespace THEN <<>> ELSE <<" ">>)
              \o CollapseWhitespaceFrom(s, i + 1)
         ELSE <<s[i]>> \o CollapseWhitespaceFrom(s, i + 1)

CollapseWhitespace(s) == CollapseWhitespaceFrom(s, 1)

TidyNameSplitsAfterCollapse(value) ==
    IF value = NaN THEN value
    ELSE LET collapsed == CollapseWhitespace(SubAnd(ReplaceSeparators(value)))
             split == [i \in 1..Len(collapsed) |->
                          IF collapsed[i] \in Upper THEN <<" ", collapsed[i]>>
                                                    ELSE <<collapsed[i]>>]
             Flat[i \in 0..Len(split)] ==
                 IF i = 0 THEN <<>> ELSE Flat[i - 1] \o split[i]
         IN  strip(Flat[Len(split)])

tidy_name(value) ==
    IF value = NaN THEN value
    ELSE strip(CollapseWhitespace(SpaceBeforeCapitals(SubAnd(ReplaceSeparators(value)))))

(***************************************************************************)
(* GeoDataFrames.  None is <<>> and an object v that is present is <<v>>.  *)
(***************************************************************************)
None == <<>>
Some(v) == <<v>>

Frame(cols, rows) == [cols |-> cols, rows |-> rows]

\* A file on disk: gpd.read_file raises on one that cannot be parsed.
File(frame) == [readable |-> TRUE, frame |-> frame]
Corrupt == [readable |-> FALSE, frame |-> Frame({}, <<>>)]

\* DataFrame.rename(columns={old: new}); a label that is absent is ignored.
Rename(df, old, new) ==
    IF old \notin df.cols THEN df
    ELSE LET cols == (df.cols \ {old}) \cup {new}
         IN  Frame(cols,
                   [i \in 1..Len(df.rows) |->
                       [c \in cols |-> IF c = new THEN df.rows[i][old]
                                                  ELSE df.rows[i][c]]])

\* df[col] = df[col].str.strip()
StripColumn(df, col) ==
    Frame(df.cols,
          [i \in 1..Len(df.rows) |->
              [c \in df.cols |-> IF c = col THEN str_strip(df.rows[i][c])
                                            ELSE df.rows[i][c]]])

\* df[col] = values (a new column, or an existing one overwritten)
WithColumn(df, col, values) ==
    Frame(df.cols \cup {col},
          [i \in 1..Len(df.rows) |->
              [c \in df.cols \cup {col} |-> IF c = col THEN values[i]
                                                       ELSE df.rows[i][c]]])

\* df[col].unique(), as a set: the options of a multiselect
ColumnValues(df, col) == {df.rows[i][col] : i \in 1..Len(df.rows)}

\* df[df[col].isin(names)], scanning the rows from row i: the rows whose
\* value is among the names, kept in the frame's order
RECURSIVE IsinRowsFrom(_, _, _, _)
IsinRowsFrom(rows, col, names, i) ==
    IF i > Len(rows) THEN <<>>
    ELSE (IF rows[i][col] \in names THEN <<rows[i]>> ELSE <<>>)
         \o IsinRowsFrom(rows, col, names, i + 1)

SelectDropsLast(df, col, names) ==
    LET kept == IsinRowsFrom(df.rows, col, names, 1)
    IN  Frame(df.cols, SubSeq(kept, 1, Len(kept) - 1))

selected_data_of(df, col, names) ==
    Frame(df.cols, IsinRowsFrom(df.rows, col, names, 1))

(***************************************************************************)
(* app.py, lines 20-35: the two sources and their loaders.                 *)
(***************************************************************************)
state_path == "data/in.json"
district_path == "data/output.geojson"

\* line 23-24 on a parsed file (to_crs leaves names and columns alone)
load_states(frame) == StripColumn(Rename(frame, "name", "State"), "State")

LoadDistrictsRenamesAlways(frame) ==
    LET renamed == IF "dtname" \in frame.cols
                   THEN Rename(Frame(frame.cols \ {"district"},
                                     [i \in 1..Len(frame.rows) |->
                                         [c \in frame.cols \ {"district"} |->
                                             frame.rows[i][c]]]),
                               "dtname", "district")
                   ELSE frame
    IN  IF "district" \in renamed.cols THEN StripColumn(renamed, "district")
                                       ELSE renamed

\* lines 30-35 on a parsed file
load_districts(frame) ==
    LET renamed == IF "district" \notin frame.cols /\ "dtname" \in frame.cols
                   THEN Rename(frame, "dtname", "district")
                   ELSE frame
    IN  IF "district" \in renamed.cols THEN StripColumn(renamed, "district")
                                       ELSE renamed

(***************************************************************************)
(* app.py: widgets and the calls into utils.                               *)
(***************************************************************************)
MaxBufferKm == 500
MinPopulation == 1000000
MaxPopulation == 50000000

LineStyles == {"Straight", "Dashed", "Curved"}
Buttons == {"none", "Clear Clicks", "Add Target Point", "Generate Map"}

\* values the two number inputs of lines 99-100 give: (longitude, latitude)
ClickPoints == {<<77, 28>>, <<80, 13>>}

\* values the number input of line 138 gives (min 0.0, max 500.0)
BufferInputs == {0, 1, MaxBufferKm}

\* values random.randint of line 187 gives
PopulationSamples == {MinPopulation, MaxPopulation}

\* the default of the states multiselect, "Madhya Pradesh"
MadhyaPradesh == <<"M", "P">>

\* lines 159-166: the figure draw_map_lines_with_labels returns, as the
\* arguments it was computed from
draw_map_lines_with_labels(geo, selected, targets, style, label, boundaries) ==
    [geo_data |-> geo, selected_data |-> selected, target_coords |-> targets,
     line_style |-> style, label_field |-> label, show_boundaries |-> boundaries]

\* line 140: the frame buffer_geometries returns, as its arguments
buffer_geometries(selected, km) == [selected_data |-> selected, buffer_km |-> km]

\* line 162: clicks if clicks else None
target_coords_of(clicks_list) ==
    IF clicks_list /= <<>> THEN Some(clicks_list) ELSE None

\* line 139
BufferAlways(km) == km >= 0

buffer_requested(km) == km > 0

\* lines 90-103: the session's target list and the local name clicks after
\* the two buttons; pt is the point of the number inputs
ClicksAddPrepends(ss, button_pressed, pt) ==
    LET c0 == IF ss.clicks /= None THEN ss.clicks[1] ELSE <<>>
    IN  IF button_pressed = "Clear Clicks"
        THEN [session_state |-> [ss EXCEPT !.clicks = Some(<<>>)], clicks |-> <<>>]
        ELSE IF button_pressed = "Add Target Point"
             THEN [session_state |-> [ss EXCEPT !.clicks = Some(<<pt>> \o c0)],
                   clicks |-> <<pt>> \o c0]
             ELSE [session_state |-> [ss EXCEPT !.clicks = Some(c0)], clicks |-> c0]

clicks_section(ss, button_pressed, pt) ==
    LET c0 == IF ss.clicks /= None THEN ss.clicks[1] ELSE <<>>
        ss1 == IF button_pressed = "Clear Clicks"
               THEN [ss EXCEPT !.clicks = Some(<<>>)] ELSE ss
        c1 == IF button_pressed = "Clear Clicks" THEN <<>> ELSE c0
        ss2 == IF ss1.clicks = None THEN [ss1 EXCEPT !.clicks = Some(<<>>)] ELSE ss1
        ss3 == IF button_pressed = "Add Target Point"
               THEN [ss2 EXCEPT !.clicks = Some(Append(ss2.clicks[1], pt))] ELSE ss2
        c2 == IF button_pressed = "Add Target Point" THEN ss3.clicks[1] ELSE c1
    IN  [session_state |-> ss3, clicks |-> c2]

\* lines 170-171: the figure the script shows, if any
DisplayNothing(ss) == None

figure_to_display(ss) == ss.generated_fig

(***************************************************************************)
(* The files the model is run on.                                          *)
(***************************************************************************)
StatesFrame ==
    Frame({"name", "geometry"},
          << [name |-> <<" ", "M", "P">>, geometry |-> "s1"] >>)

StatesFrameNoDefault ==
    Frame({"name", "geometry"}, << [name |-> <<"K", "A">>, geometry |-> "s2"] >>)

StateFiles == {File(StatesFrame), File(StatesFrameNoDefault), Corrupt}

DistrictsFrameDtname ==
    Frame({"dtname", "geometry"},
          << [dtname |-> <<"X", " ">>, geometry |-> "d1"] >>)

DistrictsFrameNeither ==
    Frame({"NAME_2", "geometry"},
          << [NAME_2 |-> <<"X">>, geometry |-> "d1"] >>)

DistrictFiles == {File(DistrictsFrameDtname), File(DistrictsFrameNeither), Corrupt}

(***************************************************************************)
(* State.  disk, cache_data, session_state and read_calls live as long as  *)
(* the process (the session); the others are the names of one script run.  *)
(***************************************************************************)
VARIABLES
    disk,                  \* the two source files
    cache_data,            \* st.cache_data: load_districts by path, get_population
    session_state,         \* st.session_state: clicks, generated_fig
    read_calls,            \* gpd.read_file calls so far, per path (up to ReadCap)
    added,                 \* points added since the last Clear Clicks
    pc,                    \* where the script run is
    button,                \* the button whose press started this run
    states,                \* the object line 23 loads
    districts,             \* the object load_districts returns
    districts_name,        \* the object the name districts is bound to
    districts_load_error,
    mode,
    clicks,
    selected_data,
    buffer_km,             \* the value of the number input of line 138, once read
    buffered,
    new_fig,               \* the figure line 159 computed in this run
    shown_fig,             \* the figure line 172 shows in this run
    ran,                   \* the features this run has run
    outcome,               \* none | running | completed | stopped | exception
    fcall                  \* a function applied on its own (no script run)

process_vars == <<disk, cache_data, session_state, read_calls, added>>
run_vars == <<pc, button, states, districts, districts_name, districts_load_error,
              mode, clicks, selected_data, buffer_km, buffered, new_fig, shown_fig,
              ran, outcome>>
app_vars == <<process_vars, run_vars>>
vars == <<app_vars, fcall>>

NoCall == [op |-> "none"]

AppInit ==
    /\ disk \in [states : StateFiles, districts : DistrictFiles]
    /\ cache_data = [load_districts |-> None, get_population |-> None]
    /\ session_state = [clicks |-> None, generated_fig |-> None]
    /\ read_calls = [states |-> 0, districts |-> 0]
    /\ added = <<>>
    /\ pc = "idle"
    /\ button = "none"
    /\ states = None
    /\ districts = None
    /\ districts_name = None
    /\ districts_load_error = None
    /\ mode = "State-to-State"
    /\ clicks = <<>>
    /\ selected_data = None
    /\ buffer_km = None
    /\ buffered = None
    /\ new_fig = None
    /\ shown_fig = None
    /\ ran = {}
    /\ outcome = "none"

Init == AppInit /\ fcall = NoCall

CountRead(path) ==
    [read_calls EXCEPT ![path] = IF @ < ReadCap THEN @ + 1 ELSE @]

\* An uncaught exception ends the script run.
Raise == pc' = "idle" /\ outcome' = "exception"

\* A user interaction (or the first request) starts a script run from the top.
\* A button can be pressed only if the run before put it on the page.
StartRun ==
    /\ pc = "idle"
    /\ \E b \in Buttons :
          /\ b \in {"Clear Clicks", "Add Target Point"} => "click_buttons" \in ran
          /\ b = "Generate Map" => "generate_button" \in ran
          /\ b = "Add Target Point" =>
                (IF session_state.clicks = None THEN TRUE
                 ELSE Len(session_state.clicks[1]) < MaxClicks)
          /\ button' = b
    /\ pc' = "load_states"
    /\ states' = None /\ districts' = None /\ districts_name' = None
    /\ districts_load_error' = None
    /\ mode' = "State-to-State" /\ clicks' = <<>>
    /\ selected_data' = None /\ buffer_km' = None /\ buffered' = None
    /\ new_fig' = None /\ shown_fig' = None
    /\ ran' = {} /\ outcome' = "running"
    /\ UNCHANGED <<process_vars, fcall>>

\* lines 23-24
LoadStates ==
    /\ pc = "load_states"
    /\ read_calls' = CountRead("states")
    /\ IF ~disk.states.readable \/ "name" \notin disk.states.frame.cols
       THEN Raise /\ UNCHANGED states
       ELSE /\ states' = Some(load_states(disk.states.frame))
            /\ pc' = "load_districts"
            /\ UNCHANGED outcome
    /\ UNCHANGED <<disk, cache_data, session_state, added, button, districts,
                   districts_name, districts_load_error, mode, clicks, selected_data,
                   buffer_km, buffered, new_fig, shown_fig, ran, fcall>>

\* lines 27-44: load_districts under st.cache_data, inside try/except
LoadDistricts ==
    /\ pc = "load_districts"
    /\ IF cache_data.load_districts /= None
       THEN /\ districts' = cache_data.load_districts
            /\ districts_load_error' = None
            /\ UNCHANGED <<cache_data, read_calls>>
       ELSE /\ read_calls' = CountRead("districts")
            /\ IF ~disk.districts.readable
               THEN /\ districts' = None
                    /\ districts_load_error' = Some("read_file")
                    /\ UNCHANGED cache_data
               ELSE /\ districts' = Some(load_districts(disk.districts.frame))
                    /\ districts_load_error' = None
                    /\ cache_data' = [cache_data EXCEPT !.load_districts = districts']
    /\ districts_name' = districts'
    /\ pc' = "sidebar"
    /\ UNCHANGED <<disk, session_state, added, button, states, mode, clicks,
                   selected_data, buffer_km, buffered, new_fig, shown_fig, ran, outcome, fcall>>

\* lines 47-78: the downloads of the sidebar and the full map
Sidebar ==
    /\ pc = "sidebar"
    /\ ran' = ran \cup {"download_states", "full_map"}
                  \cup (IF districts_name /= None THEN {"download_districts"}
                                                  ELSE {"districts_warning"})
    /\ pc' = "clicks"
    /\ UNCHANGED <<process_vars, button, states, districts, districts_name,
                   districts_load_error, mode, clicks, selected_data, buffer_km, buffered,
                   new_fig, shown_fig, outcome, fcall>>

\* lines 90-105
Clicks ==
    /\ pc = "clicks"
    /\ \E pt \in ClickPoints :
          LET r == clicks_section(session_state, button, pt)
          IN  /\ session_state' = r.session_state
              /\ clicks' = r.clicks
              /\ added' = IF button = "Clear Clicks" THEN <<>>
                          ELSE IF button = "Add Target Point" THEN Append(added, pt)
                          ELSE added
    /\ ran' = ran \cup {"click_buttons"}
    /\ pc' = "select"
    /\ UNCHANGED <<disk, cache_data, read_calls, button, states, districts,
                   districts_name, districts_load_error, mode, selected_data,
                   buffer_km, buffered, new_fig, shown_fig, outcome, fcall>>

\* lines 110-113; st.multiselect raises when its default is not an option
SelectStates ==
    /\ pc = "select"
    /\ mode' = "State-to-State"
    /\ LET state_options == ColumnValues(states[1], "State")
       IN  IF MadhyaPradesh \notin state_options
           THEN Raise /\ UNCHANGED <<selected_data, ran>>
           ELSE /\ \E selected_states \in SUBSET state_options :
                      selected_data' =
                          Some(selected_data_of(states[1], "State", selected_states))
                /\ ran' = ran \cup {"select_states"}
                /\ pc' = "export"
                /\ UNCHANGED outcome
    /\ UNCHANGED <<process_vars, button, states, districts, districts_name,
                   districts_load_error, clicks, buffer_km, buffered, new_fig, shown_fig, fcall>>

\* lines 115-126
SelectDistricts ==
    /\ pc = "select"
    /\ mode' = "District-to-District"
    /\ IF districts_name = None
       THEN /\ ran' = ran \cup {"districts_error"}
            /\ pc' = "idle" /\ outcome' = "stopped"
            /\ UNCHANGED selected_data
       ELSE IF "district" \notin districts_name[1].cols
       THEN /\ ran' = ran \cup {"district_column_warning"}
            /\ Raise
            /\ UNCHANGED selected_data
       ELSE /\ \E selected_districts \in
                     SUBSET ColumnValues(districts_name[1], "district") :
                  selected_data' =
                      Some(selected_data_of(districts_name[1], "district",
                                            selected_districts))
            /\ ran' = ran \cup {"select_districts"}
            /\ pc' = "export"
            /\ UNCHANGED outcome
    /\ UNCHANGED <<process_vars, button, states, districts, districts_name,
                   districts_load_error, clicks, buffer_km, buffered, new_fig, shown_fig, fcall>>

\* lines 129-154
ExportAndBuffer ==
    /\ pc = "export"
    /\ IF selected_data /= None /\ selected_data[1].rows /= <<>>
       THEN \E km \in BufferInputs :
               /\ buffer_km' = Some(km)
               /\ IF buffer_requested(km)
                  THEN /\ buffered' = Some(buffer_geometries(selected_data[1], km))
                       /\ ran' = ran \cup {"download_selection", "plot_buffer",
                                            "download_buffer"}
                  ELSE /\ buffered' = None
                       /\ ran' = ran \cup {"download_selection"}
       ELSE /\ buffer_km' = None
            /\ buffered' = None
            /\ ran' = ran \cup {"select_hint"}
    /\ pc' = "generate"
    /\ UNCHANGED <<process_vars, button, states, districts, districts_name,
                   districts_load_error, mode, clicks, selected_data, new_fig,
                   shown_fig, outcome, fcall>>

\* lines 158-176: Generate Map, then the figure of the session is shown
GenerateAndDisplay ==
    /\ pc = "generate"
    /\ IF button = "Generate Map" /\ selected_data /= None
       THEN \E line_type \in LineStyles, show_boundaries \in BOOLEAN :
               /\ new_fig' = Some(draw_map_lines_with_labels(
                                 IF mode = "State-to-State" THEN states[1]
                                                            ELSE districts_name[1],
                                 selected_data[1],
                                 target_coords_of(clicks),
                                 line_type,
                                 IF mode = "State-to-State" THEN "State" ELSE "district",
                                 show_boundaries))
               /\ session_state' = [session_state EXCEPT !.generated_fig = new_fig']
       ELSE UNCHANGED <<new_fig, session_state>>
    /\ shown_fig' = figure_to_display(session_state')
    /\ ran' = ran \cup {"generate_button"}
                  \cup (IF new_fig' /= None THEN {"generate"} ELSE {})
                  \cup (IF shown_fig' /= None THEN {"show_map", "download_map"} ELSE {})
    /\ pc' = "folium"
    /\ UNCHANGED <<disk, cache_data, read_calls, added, button, states, districts,
                   districts_name, districts_load_error, mode, clicks, selected_data,
                   buffer_km, buffered, outcome, fcall>>

\* lines 185-201: the population column is put on the states object itself
FoliumStates ==
    /\ pc = "folium"
    /\ IF cache_data.get_population /= None
       THEN UNCHANGED cache_data
       ELSE \E population \in [1..Len(states[1].rows) -> PopulationSamples] :
               cache_data' = [cache_data EXCEPT !.get_population = Some(population)]
    /\ states' = Some(WithColumn(states[1], "Population", cache_data'.get_population[1]))
    /\ ran' = ran \cup {"state_map"}
    /\ pc' = "idle" /\ outcome' = "completed"
    /\ UNCHANGED <<disk, session_state, read_calls, added, button, districts,
                   districts_name, districts_load_error, mode, clicks, selected_data,
                   buffer_km, buffered, new_fig, shown_fig, fcall>>

\* lines 203-221: the index column is put on a copy
FoliumDistricts ==
    /\ pc = "folium"
    /\ IF districts_name = None
       THEN /\ ran' = ran \cup {"districts_error"}
            /\ UNCHANGED districts_name
       ELSE /\ districts_name' =
                  Some(WithColumn(districts_name[1], "Index",
                                  [i \in 1..Len(districts_name[1].rows) |-> i - 1]))
            /\ ran' = ran \cup {"district_map"}
    /\ pc' = "idle" /\ outcome' = "completed"
    /\ UNCHANGED <<process_vars, button, states, districts, districts_load_error,
                   mode, clicks, selected_data, buffer_km, buffered, new_fig, shown_fig, fcall>>

Next ==
    \/ StartRun
    \/ LoadStates
    \/ LoadDistricts
    \/ Sidebar
    \/ Clicks
    \/ SelectStates
    \/ SelectDistricts
    \/ ExportAndBuffer
    \/ GenerateAndDisplay
    \/ FoliumStates
    \/ FoliumDistricts

Spec == Init /\ [][Next]_vars

(***************************************************************************)
(* Functions applied on their own: no script run takes place.              *)
(***************************************************************************)
NoApp == AppInit /\ disk = [states |-> Corrupt, districts |-> Corrupt]

(***************************************************************************)
(* tidy_name applied to a raw name, then to its own result.                *)
(***************************************************************************)
Alphabet == Lower \cup Upper \cup Whitespace \cup {"_", "-"}

RawNames == UNION {[1..n -> Alphabet] : n \in 0..MaxLen} \cup {NaN}

TidyInit ==
    /\ NoApp
    /\ \E s \in RawNames : fcall = [op |-> "tidy_name", step |-> 0, value |-> s]

TidyOnce ==
    /\ fcall.op = "tidy_name" /\ fcall.step = 0
    /\ fcall' = [op |-> "tidy_name", step |-> 1, value |-> fcall.value,
                 once |-> tidy_name(fcall.value)]
    /\ UNCHANGED app_vars

TidyTwice ==
    /\ fcall.op = "tidy_name" /\ fcall.step = 1
    /\ fcall' = [op |-> "tidy_name", step |-> 2, value |-> fcall.value,
                 once |-> fcall.once, twice |-> tidy_name(fcall.once)]
    /\ UNCHANGED app_vars

TidyNext == TidyOnce \/ TidyTwice

SpecTidy == TidyInit /\ [][TidyNext]_vars

(***************************************************************************)
(* The selection of lines 113 and 126 applied to a collection.             *)
(***************************************************************************)
FeatureNames == {<<"X">>, <<"Y">>}
ChosenNames == FeatureNames \cup {<<"Z">>}
Geometries == {"g1", "g2"}

FeatureRows(col) ==
    {[c \in {col, "geometry"} |-> IF c = col THEN nm ELSE g] :
        nm \in FeatureNames, g \in Geometries}

SelectInit ==
    /\ NoApp
    /\ \E col \in {"State", "district"}, n \in 0..MaxRows :
          \E rows \in [1..n -> FeatureRows(col)], names \in SUBSET ChosenNames :
             fcall = [op |-> "select", step |-> 0, column |-> col,
                      frame |-> Frame({col, "geometry"}, rows), names |-> names]

SelectByNames ==
    /\ fcall.op = "select" /\ fcall.step = 0
    /\ fcall' = [op |-> "select", step |-> 1, column |-> fcall.column,
                 frame |-> fcall.frame, names |-> fcall.names,
                 result |-> selected_data_of(fcall.frame, fcall.column, fcall.names)]
    /\ UNCHANGED app_vars

SelectNext == SelectByNames

SpecSelect == SelectInit /\ [][SelectNext]_vars

(***************************************************************************)
(* load_districts applied to a parsed source.                              *)
(***************************************************************************)
RawDistrictValues == {<<"X">>, <<" ", "X", "\t">>, <<" ">>, NaN}

NameColumnSets == SUBSET {"district", "dtname"}

LoadInit ==
    /\ NoApp
    /\ \E named \in NameColumnSets, n \in 1..MaxRows :
          \E cells \in [1..n -> [named -> RawDistrictValues]] :
             fcall = [op |-> "load_districts", step |-> 0,
                      frame |-> Frame(named \cup {"geometry"},
                                      [i \in 1..n |->
                                          [c \in named \cup {"geometry"} |->
                                              IF c = "geometry" THEN <<"d">>
                                                                ELSE cells[i][c]]])]

LoadDistrictsCall ==
    /\ fcall.op = "load_districts" /\ fcall.step = 0
    /\ fcall' = [op |-> "load_districts", step |-> 1, frame |-> fcall.frame,
                 result |-> load_districts(fcall.frame)]
    /\ UNCHANGED app_vars

LoadNext == LoadDistrictsCall

SpecLoad == LoadInit /\ [][LoadNext]_vars

(***************************************************************************)
(* Properties.                                                             *)
(***************************************************************************)
RunEnded == pc = "idle" /\ outcome /= "none"

ToSet(seq) == {seq[i] : i \in 1..Len(seq)}

Reordered(df, p) == Frame(df.cols, [i \in 1..Len(df.rows) |-> df.rows[p[i]]])

C2_LoadFailureIsolated ==
    RunEnded =>
        /\ ~disk.states.readable =>
              /\ outcome /= "exception"
              /\ (disk.districts.readable => "download_districts" \in ran)
        /\ (~disk.districts.readable /\ disk.states = File(StatesFrame)) =>
              /\ outcome /= "exception"
              /\ districts_load_error /= None
              /\ ran \cap {"download_districts", "select_districts", "district_map"} = {}
              /\ {"download_states", "full_map"} \subseteq ran

\* C3: a district collection that is available has the district column: a
\* source with neither district nor dtname fails at load.
C3_LoadedDistrictsHaveDistrictColumn ==
    districts /= None => "district" \in districts[1].cols

\* C4 (as claimed): a figure shown in a run was computed in that run.
C4_ShownFigureComputedThisRun ==
    shown_fig /= None => (new_fig /= None /\ shown_fig = new_fig)

\* C4 (amended): once the script is past line 176, the figure it has shown
\* is the one the session holds (none if the session holds none); a figure
\* computed in this run was computed from this run's selection, targets and
\* labels on a press of Generate Map and is the one the session holds; and
\* the session's figure changes only by such a press.
C4_ShownFigureIsSessionFigure ==
    /\ [](/\ (pc = "folium" \/ (pc = "idle" /\ outcome = "completed")) =>
                shown_fig = session_state.generated_fig
          /\ new_fig /= None =>
                /\ button = "Generate Map"
                /\ session_state.generated_fig = new_fig
                /\ new_fig[1].selected_data = selected_data[1]
                /\ new_fig[1].target_coords = target_coords_of(clicks)
                /\ new_fig[1].line_style \in LineStyles
                /\ new_fig[1].label_field =
                      (IF mode = "State-to-State" THEN "State" ELSE "district"))
    /\ [][session_state'.generated_fig /= session_state.generated_fig =>
             /\ pc = "generate" /\ button = "Generate Map"
             /\ new_fig' /= None
             /\ session_state'.generated_fig = new_fig']_vars

\* A run that shows a figure it did not compute, drawn from a selection
\* other than this run's.
C4_Witness ==
    /\ shown_fig /= None
    /\ new_fig = None
    /\ button /= "Generate Map"
    /\ selected_data /= None
    /\ shown_fig[1].selected_data /= selected_data[1]

\* C5: a loaded collection is never changed after its load.
C5_LoadedCollectionsReadOnly ==
    /\ states /= None => states[1] = load_states(disk.states.frame)
    /\ districts /= None => districts[1] = load_districts(disk.districts.frame)

\* C6: each source path is parsed at most once in a process.
C6_ParsedAtMostOnce ==
    read_calls.states <= 1 /\ read_calls.districts <= 1

IsTrimmed(v) ==
    v = NaN \/ v = <<>> \/ (v[1] \notin Whitespace /\ v[Len(v)] \notin Whitespace)

\* v is raw without the whitespace at its two ends
TrimmedFrom(v, raw) ==
    IF raw = NaN THEN v = NaN
    ELSE /\ v /= NaN
         /\ IsTrimmed(v)
         /\ \E i \in 0..Len(raw) :
               /\ i + Len(v) <= Len(raw)
               /\ \A k \in 1..Len(v) : raw[i + k] = v[k]
               /\ \A k \in 1..Len(raw) :
                     (k <= i \/ k > i + Len(v)) => raw[k] \in Whitespace

\* C7: the district column of the source is used if there is one, and a
\* dtname column beside it is left as it is; with dtname alone, that column
\* becomes district; and a district column that is returned is trimmed.
C7_DistrictColumnResolution ==
    (fcall.op = "load_districts" /\ fcall.step = 1) =>
        LET f == fcall.frame
            r == fcall.result
            n == Len(f.rows)
        IN  /\ Len(r.rows) = n
            /\ "district" \in f.cols =>
                  /\ r.cols = f.cols
                  /\ \A i \in 1..n :
                        /\ TrimmedFrom(r.rows[i]["district"], f.rows[i]["district"])
                        /\ \A c \in f.cols \ {"district"} : r.rows[i][c] = f.rows[i][c]
            /\ ("district" \notin f.cols /\ "dtname" \in f.cols) =>
                  /\ r.cols = (f.cols \ {"dtname"}) \cup {"district"}
                  /\ \A i \in 1..n :
                        /\ TrimmedFrom(r.rows[i]["district"], f.rows[i]["dtname"])
                        /\ r.rows[i]["geometry"] = f.rows[i]["geometry"]
            /\ ("district" \notin f.cols /\ "dtname" \notin f.cols) => r = f
            /\ "district" \in r.cols =>
                  \A i \in 1..n : IsTrimmed(r.rows[i]["district"])

\* A source with both columns, whose district value loses its whitespace
\* and whose dtname value keeps it.
C7_Witness ==
    /\ fcall.op = "load_districts" /\ fcall.step = 1
    /\ {"district", "dtname"} \subseteq fcall.frame.cols
    /\ fcall.frame.rows[1]["district"] = <<" ", "X", "\t">>
    /\ fcall.frame.rows[1]["dtname"] = <<" ">>
    /\ fcall.result.rows[1]["district"] = <<"X">>
    /\ fcall.result.rows[1]["dtname"] = <<" ">>

\* C8: the session's target list is the points added since the last Clear
\* Clicks, in the order they were added, and Generate Map passes that list,
\* or None when it is empty.
C8_TargetsAreAddedPoints ==
    /\ session_state.clicks = None => added = <<>>
    /\ session_state.clicks /= None => session_state.clicks[1] = added
    /\ new_fig /= None =>
          new_fig[1].target_coords = (IF added = <<>> THEN None ELSE Some(added))

\* Generate Map pressed with two different points added.
C8_Witness ==
    /\ new_fig /= None
    /\ Len(added) = 2
    /\ added[1] /= added[2]
    /\ new_fig[1].target_coords = Some(added)

\* C9: buffer_geometries is called only on a selection that is not empty
\* and with 0 < buffer_km <= 500; otherwise nothing buffered is computed,
\* plotted or offered.
C9_BufferPrecondition ==
    /\ buffered /= None =>
          /\ selected_data /= None
          /\ selected_data[1].rows /= <<>>
          /\ buffered[1].selected_data = selected_data[1]
          /\ buffer_km = Some(buffered[1].buffer_km)
          /\ 0 < buffered[1].buffer_km
          /\ buffered[1].buffer_km <= MaxBufferKm
    /\ (\/ selected_data = None
        \/ selected_data[1].rows = <<>>
        \/ buffer_km = None
        \/ buffer_km = Some(0)) =>
          /\ buffered = None
          /\ ran \cap {"plot_buffer", "download_buffer"} = {}

\* A run that buffers its selection by the largest distance.
C9_Witness ==
    /\ buffered /= None
    /\ buffered[1].buffer_km = MaxBufferKm
    /\ "download_buffer" \in ran

\* C10: tidy_name applied to its own result changes nothing, and a value
\* that is not a string is returned as it is.
C10_TidyNameIdempotent ==
    /\ (fcall.op = "tidy_name" /\ fcall.step = 2) => fcall.twice = fcall.once
    /\ (fcall.op = "tidy_name" /\ fcall.step >= 1 /\ fcall.value = NaN) =>
          fcall.once = NaN

\* "aandA" becomes "a and A", and stays so.
C10_Witness ==
    /\ fcall.op = "tidy_name" /\ fcall.step = 2
    /\ fcall.value = <<"a", "a", "n", "d", "A">>
    /\ fcall.once = <<"a", " ", "a", "n", "d", " ", "A">>
    /\ fcall.twice = fcall.once

====
